---- MODULE Spec2Model ----
(***************************************************************************)
(* GreatCovidDashboard of dashboards-2.ipynb: the data loader              *)
(* (get_covid_data), the reactive fields declared with param, the          *)
(* covid_data property with its staleness check, and the three views       *)
(* (plot, map_plot, selected_day_numbers) that panel re-invokes when a     *)
(* field they depend on changes.                                           *)
(*                                                                         *)
(* Dates are day numbers.  A data frame is the sequence of its rows in     *)
(* index order (a RangeIndex after reset_index); a row is a function from  *)
(* column names to values.  The remote CSV is an input: every call of the  *)
(* loader receives one of the tables of RawTables.                         *)
(***************************************************************************)
EXTENDS Integers, Sequences, FiniteSets, TLC

\* ---- bounds of the model ------------------------------------------------
\* the last value of dt.date.today() the model lets the clock reach
MaxToday == 5
\* the dates a user may try to select are 0 .. MaxDate
MaxDate == 3

\* ---- the remote CSV -----------------------------------------------------
\* country names in the order sorted() and groupby put them
CountryOrder == <<"Czechia", "Slovakia">>

AllCountries == {CountryOrder[i] : i \in 1..Len(CountryOrder)}

RawRow(d, c, s, conf, rec, dea, lat, long) ==
  [Date |-> d, Country |-> c, State |-> s, Confirmed |-> conf,
   Recovered |-> rec, Deaths |-> dea, Lat |-> lat, Long |-> long]

\* two countries, days 1 and 2
Raw1 ==
  << RawRow(1, "Czechia", "", 100, 10, 0, 49, 15),
     RawRow(2, "Czechia", "", 1000, 100, 1, 49, 15),
     RawRow(1, "Slovakia", "", 50, 0, 0, 48, 19),
     RawRow(2, "Slovakia", "", 500, 10, 1, 48, 19) >>

\* a later table: one country only, reported per province, days 1 to 3
Raw2 ==
  << RawRow(1, "Czechia", "Bohemia", 60, 6, 0, 50, 14),
     RawRow(2, "Czechia", "Bohemia", 600, 60, 1, 50, 14),
     RawRow(3, "Czechia", "Bohemia", 1200, 60, 6, 50, 14),
     RawRow(1, "Czechia", "Moravia", 40, 4, 0, 49, 17),
     RawRow(2, "Czechia", "Moravia", 400, 40, 0, 49, 17),
     RawRow(3, "Czechia", "Moravia", 800, 40, 4, 49, 17) >>

RawTables == {Raw1, Raw2}

\* ---- country_alpha3 and get_covid_data ----------------------------------
country_alpha3(country) ==
  CASE country = "Czechia" -> "CZE"
    [] country = "Slovakia" -> "SVK"
    [] OTHER -> "None"

RECURSIVE SumCol(_, _, _, _)
\* groupby(...).agg("sum"): the sum of column col over the rows of the group
SumCol(raw, c, d, col) ==
  IF raw = << >> THEN 0
  ELSE (IF Head(raw).Country = c /\ Head(raw).Date = d THEN Head(raw)[col] ELSE 0)
       + SumCol(Tail(raw), c, d, col)

\* agg("first"): column col of the first row of the group
FirstCol(raw, c, d, col) ==
  LET idx == {i \in 1..Len(raw) : raw[i].Country = c /\ raw[i].Date = d}
      i0 == CHOOSE i \in idx : \A j \in idx : i <= j
  IN raw[i0][col]

RawDates(raw) == {raw[i].Date : i \in 1..Len(raw)}

RECURSIVE DatesAscending(_)
\* the dates of a set in ascending order
DatesAscending(ds) ==
  IF ds = {} THEN << >>
  ELSE LET m == CHOOSE x \in ds : \A y \in ds : x <= y
       IN <<m>> \o DatesAscending(ds \ {m})

\* the group keys (Country, Date) in the sorted order of groupby
GroupKeys(raw) ==
  LET ds == DatesAscending(RawDates(raw))
      all == [k \in 1..(Len(CountryOrder) * Len(ds)) |->
                <<CountryOrder[((k - 1) \div Len(ds)) + 1], ds[((k - 1) % Len(ds)) + 1]>>]
      present(key) == \E i \in 1..Len(raw) : raw[i].Country = key[1] /\ raw[i].Date = key[2]
  IN SelectSeq(all, present)

\* one row per (Country, Date) group, with the ISO code assigned
get_covid_data(raw) ==
  LET keys == GroupKeys(raw)
  IN [k \in 1..Len(keys) |->
        [Country |-> keys[k][1], Date |-> keys[k][2],
         Confirmed |-> SumCol(raw, keys[k][1], keys[k][2], "Confirmed"),
         Recovered |-> SumCol(raw, keys[k][1], keys[k][2], "Recovered"),
         Deaths |-> SumCol(raw, keys[k][1], keys[k][2], "Deaths"),
         Lat |-> FirstCol(raw, keys[k][1], keys[k][2], "Lat"),
         Long |-> FirstCol(raw, keys[k][1], keys[k][2], "Long"),
         iso_alpha |-> country_alpha3(keys[k][1])]]

\* the data frame the loader returns for each table
Loaded == [raw \in RawTables |-> get_covid_data(raw)]

\* every data frame the loader can return
Frames == {Loaded[raw] : raw \in RawTables}

FrameDates(df) == {df[i]["Date"] : i \in 1..Len(df)}
FrameCountries(df) == {df[i]["Country"] : i \in 1..Len(df)}
\* df["Date"].min() and df["Date"].max()
DateMin(df) == CHOOSE x \in FrameDates(df) : \A y \in FrameDates(df) : x <= y
DateMax(df) == CHOOSE x \in FrameDates(df) : \A y \in FrameDates(df) : y <= x

\* the dashboard is constructed the day after the last date of the newest
\* table: that table is then fresh, the older one already stale
FirstToday == DateMax(Loaded[Raw2]) + 1

\* ---- the declared fields (param) -----------------------------------------
Metrics == {"Confirmed", "Recovered", "Deaths"}
PlotTypes == {"bar", "line"}
FieldNames == {"countries", "plotted_variable", "use_log_scale", "plot_type", "map_plot_date"}

VARIABLES
  today,             \* dt.date.today()
  _covid_data,       \* the cached data frame
  date_bounds,       \* self.param.map_plot_date.bounds
  countries_objects, \* self.param.countries.objects
  countries, plotted_variable, use_log_scale, plot_type, map_plot_date,
  viewed,            \* view() has built the dashboard, the panes watch the fields
  views,             \* what each view returned when the last operation invoked it
  op,                \* the last operation called on the dashboard
  req,               \* the field and value of the last assignment
  err,               \* the exception the last operation raised, or "none"
  ret,               \* what the last read of covid_data returned
  loads,             \* calls of get_covid_data made by the last operation
  recomputed,        \* views invoked by the last operation
  loaded             \* what get_covid_data returned last

vars == <<today, _covid_data, date_bounds, countries_objects, countries,
          plotted_variable, use_log_scale, plot_type, map_plot_date, viewed,
          views, op, req, err, ret, loads, recomputed, loaded>>

\* the values of the fields, as the views read them
Fields ==
  [countries |-> countries, plotted_variable |-> plotted_variable,
   use_log_scale |-> use_log_scale, plot_type |-> plot_type,
   map_plot_date |-> map_plot_date]

\* the cache and the parameter domains update_covid_data writes
Session ==
  [data |-> _covid_data, bounds |-> date_bounds, objects |-> countries_objects,
   loads |-> 0, loaded |-> loaded]

\* InDomain with the lower bound of the date left unchecked
InDomainNoLowerBound(s, field, value) ==
  CASE field = "countries" -> value \subseteq s.objects
    [] field = "plotted_variable" -> value \in Metrics
    [] field = "use_log_scale" -> value \in BOOLEAN
    [] field = "plot_type" -> value \in PlotTypes
    [] field = "map_plot_date" -> value <= s.bounds[2]

\* param's validation of an assignment against the domain declared for the
\* field: ListSelector and Selector check membership in objects, Date checks
\* the inclusive bounds, Boolean accepts the two booleans
InDomain(s, field, value) ==
  CASE field = "countries" -> value \subseteq s.objects
    [] field = "plotted_variable" -> value \in Metrics
    [] field = "use_log_scale" -> value \in BOOLEAN
    [] field = "plot_type" -> value \in PlotTypes
    [] field = "map_plot_date" -> s.bounds[1] <= value /\ value <= s.bounds[2]

\* ---- update_covid_data and the covid_data property ----------------------
update_covid_data(s, raw) ==
  LET df == Loaded[raw]
  IN [data |-> df,
      bounds |-> <<DateMin(df), DateMax(df)>>,
      objects |-> FrameCountries(df),
      loads |-> s.loads + 1,
      loaded |-> df]

\* Stale with <= for <: data of yesterday counts as stale
StaleSinceYesterday(df, t) == DateMax(df) <= t - 1

\* self._covid_data["Date"].max() < (dt.date.today() - dt.timedelta(days=1))
Stale(df, t) == DateMax(df) < t - 1

\* covid_data returning the frame it held before the reload
covid_data_returns_old(s, t) ==
  IF Stale(s.data, t)
  THEN {[s |-> update_covid_data(s, raw), ret |-> s.data] : raw \in RawTables}
  ELSE {[s |-> s, ret |-> s.data]}

\* one read of the property: the session after it and the frame returned
covid_data(s, t) ==
  IF Stale(s.data, t)
  THEN {LET u == update_covid_data(s, raw) IN [s |-> u, ret |-> u.data] :
           raw \in RawTables}
  ELSE {[s |-> s, ret |-> s.data]}

\* ---- pandas: boolean masks and .loc --------------------------------------
\* df["Country"].isin(selected)
IsinMask(df, selected) == [i \in 1..Len(df) |-> df[i]["Country"] \in selected]

\* df["Date"].dt.date == d
DateMask(df, d) == [i \in 1..Len(df) |-> df[i]["Date"] = d]

\* m1 & m2: the masks are aligned on the index, a position one of them lacks
\* is False
AndMask(m1, m2) ==
  LET n == IF Len(m1) >= Len(m2) THEN Len(m1) ELSE Len(m2)
  IN [i \in 1..n |-> i <= Len(m1) /\ i <= Len(m2) /\ m1[i] /\ m2[i]]

RECURSIVE RowsAt(_, _, _)
\* the rows of df at the positions i .. Len(df) where the mask is True
RowsAt(df, mask, i) ==
  IF i > Len(df) THEN << >>
  ELSE (IF mask[i] THEN <<df[i]>> ELSE << >>) \o RowsAt(df, mask, i + 1)

\* df.loc[mask]: the mask is reindexed to the index of df; a mask that lacks
\* a label of df raises IndexingError
Loc(df, mask) ==
  IF Len(mask) < Len(df)
  THEN [ok |-> FALSE, rows |-> << >>]
  ELSE [ok |-> TRUE, rows |-> RowsAt(df, mask, 1)]

RECURSIVE Log10(_)
\* np.log10 of a count, rounded down; -1 stands for the -inf of log10(0)
Log10(n) == IF n = 0 THEN -1 ELSE IF n < 10 THEN 0 ELSE 1 + Log10(n \div 10)

\* LogColumn naming the metric column itself, so that assign replaces it
LogColumnOverwrites(metric) == metric

\* f"log({self.plotted_variable})"
LogColumn(metric) ==
  CASE metric = "Confirmed" -> "log(Confirmed)"
    [] metric = "Recovered" -> "log(Recovered)"
    [] metric = "Deaths" -> "log(Deaths)"

\* data.assign(**{column: f(data)}): a new frame with the column added, or
\* replaced when the frame already has a column of that name
Assign(data, column, metric) ==
  [i \in 1..Len(data) |-> (column :> Log10(data[i][metric])) @@ data[i]]

\* data.set_index("Country")[["Confirmed", "Recovered", "Deaths"]]
SummaryTable(data) ==
  [i \in 1..Len(data) |->
     [Country |-> data[i]["Country"], Confirmed |-> data[i]["Confirmed"],
      Recovered |-> data[i]["Recovered"], Deaths |-> data[i]["Deaths"]]]

\* ---- the views ------------------------------------------------------------
\* Each view is the set of its possible outcomes [s, view]: s is the session
\* after the reads of covid_data the view makes, view the object it returns
\* (status "ok") or the exception it raises.  frame is the data frame .loc
\* was applied to; same tells whether the masks were computed from that same
\* frame.
Raised(s) == [s |-> s, view |-> [status |-> "IndexingError"]]

plot(s, f, t) ==
  UNION { { LET sel == Loc(r1.ret, IsinMask(r2.ret, f.countries))
            IN IF ~sel.ok THEN Raised(r2.s)
               ELSE [s |-> r2.s,
                     view |-> [status |-> "ok", kind |-> f.plot_type, data |-> sel.rows,
                               x |-> "Date", y |-> f.plotted_variable,
                               color |-> "Country", log_y |-> f.use_log_scale,
                               frame |-> r1.ret, same |-> (r1.ret = r2.ret)]]
            : r2 \in covid_data(r1.s, t) }
          : r1 \in covid_data(s, t) }

map_plot(s, f, t) ==
  UNION { { LET sel == Loc(r1.ret, DateMask(r2.ret, f.map_plot_date))
                color_column == IF f.use_log_scale THEN LogColumn(f.plotted_variable)
                                ELSE f.plotted_variable
                data == IF f.use_log_scale
                        THEN Assign(sel.rows, color_column, f.plotted_variable)
                        ELSE sel.rows
            IN IF ~sel.ok THEN Raised(r2.s)
               ELSE [s |-> r2.s,
                     view |-> [status |-> "ok", data |-> data, locations |-> "iso_alpha",
                               color |-> color_column, hover_name |-> "Country",
                               frame |-> r1.ret, same |-> (r1.ret = r2.ret)]]
            : r2 \in covid_data(r1.s, t) }
          : r1 \in covid_data(s, t) }

selected_day_numbers(s, f, t) ==
  UNION { UNION { { LET sel == Loc(r1.ret, AndMask(DateMask(r2.ret, f.map_plot_date),
                                                   IsinMask(r3.ret, f.countries)))
                    IN IF ~sel.ok THEN Raised(r3.s)
                       ELSE [s |-> r3.s,
                             view |-> [status |-> "ok", title |-> f.map_plot_date,
                                       data |-> sel.rows, table |-> SummaryTable(sel.rows),
                                       frame |-> r1.ret,
                                       same |-> (r1.ret = r2.ret /\ r2.ret = r3.ret)]]
                    : r3 \in covid_data(r2.s, t) }
                  : r2 \in covid_data(r1.s, t) }
          : r1 \in covid_data(s, t) }

\* ---- param.depends and the panes of view() ------------------------------
ViewNames == {"plot", "map_plot", "selected_day_numbers"}

\* the fields each view declares with @param.depends
Depends ==
  [plot |-> {"countries", "plotted_variable", "use_log_scale", "plot_type"},
   map_plot |-> {"plotted_variable", "use_log_scale", "map_plot_date"},
   selected_day_numbers |-> {"map_plot_date", "countries"}]

\* the order in which view() builds the panes, which is the order their
\* watchers are called in: pn.Row(..., self.plot) is an argument of
\* pn.Column(..., self.selected_day_numbers, ..., self.map_plot)
ViewOrder == <<"plot", "selected_day_numbers", "map_plot">>

Compute(name, s, f, t) ==
  CASE name = "plot" -> plot(s, f, t)
    [] name = "map_plot" -> map_plot(s, f, t)
    [] name = "selected_day_numbers" -> selected_day_numbers(s, f, t)

\* the views watching a field, in calling order
Watchers(field) ==
  LET watches(name) == field \in Depends[name]
  IN SelectSeq(ViewOrder, watches)

RECURSIVE RunViews(_, _, _, _)
\* invoke the views of todo one after the other; an exception ends the run
\* and the views not yet reached are not invoked
RunViews(todo, st, f, t) ==
  IF todo = << >> THEN {st}
  ELSE UNION { IF o.view.status = "ok"
               THEN RunViews(Tail(todo),
                             [s |-> o.s,
                              views |-> [st.views EXCEPT ![Head(todo)] = o.view],
                              recomputed |-> st.recomputed \cup {Head(todo)},
                              err |-> "none"], f, t)
               ELSE {[s |-> o.s, views |-> st.views,
                      recomputed |-> st.recomputed \cup {Head(todo)},
                      err |-> o.view.status]}
               : o \in Compute(Head(todo), st.s, f, t) }

NoView == [status |-> "none"]
NoViews == [name \in ViewNames |-> NoView]
NoReq == [field |-> "none", value |-> 0]

\* ---- the dashboard --------------------------------------------------------
\* GreatCovidDashboard(): the declared defaults, the first load, and the last
\* date of the data as the selected date
Init ==
  /\ today = FirstToday
  /\ \E raw \in RawTables :
       LET s == update_covid_data([loads |-> 0], raw)
       IN /\ _covid_data = s.data
          /\ date_bounds = s.bounds
          /\ countries_objects = s.objects
          /\ loaded = s.loaded
          /\ loads = s.loads
          /\ map_plot_date = DateMax(s.data)
  /\ countries = {"Czechia"}
  /\ plotted_variable = "Confirmed"
  /\ use_log_scale = FALSE
  /\ plot_type = "bar"
  /\ viewed = FALSE
  /\ views = NoViews
  /\ op = "__init__"
  /\ req = NoReq
  /\ err = "none"
  /\ ret = << >>
  /\ recomputed = {}

\* the session st.s becomes the cache and the parameter domains
Store(s) ==
  /\ _covid_data' = s.data
  /\ date_bounds' = s.bounds
  /\ countries_objects' = s.objects
  /\ loaded' = s.loaded
  /\ loads' = s.loads

\* dashboard.<field> = value: param validates the value and rejects it with
\* ValueError, or stores it and, when it differs from the old one, calls the
\* watchers of the panes that depend on the field
Set(field, value) ==
  /\ op' = "set"
  /\ req' = [field |-> field, value |-> value]
  /\ ret' = << >>
  /\ UNCHANGED <<today, viewed>>
  /\ IF ~InDomain(Session, field, value)
     THEN /\ err' = "ValueError"
          /\ recomputed' = {}
          /\ loads' = 0
          /\ views' = NoViews
          /\ UNCHANGED <<_covid_data, date_bounds, countries_objects, loaded,
                         countries, plotted_variable, use_log_scale, plot_type,
                         map_plot_date>>
     ELSE LET f == [Fields EXCEPT ![field] = value]
              todo == IF viewed /\ value # Fields[field] THEN Watchers(field) ELSE << >>
          IN \E st \in RunViews(todo, [s |-> Session, views |-> NoViews,
                                       recomputed |-> {}, err |-> "none"], f, today) :
               /\ countries' = f.countries
               /\ plotted_variable' = f.plotted_variable
               /\ use_log_scale' = f.use_log_scale
               /\ plot_type' = f.plot_type
               /\ map_plot_date' = f.map_plot_date
               /\ Store(st.s)
               /\ views' = st.views
               /\ recomputed' = st.recomputed
               /\ err' = st.err

\* the values a user tries to assign
TriedCountries == (SUBSET AllCountries) \ {{}}
TriedVariables == {"Confirmed", "Deaths", "Tests"}
TriedPlotTypes == {"bar", "line", "pie"}
TriedDates == 0..MaxDate

SetCountries == \E value \in TriedCountries : Set("countries", value)
SetPlottedVariable == \E value \in TriedVariables : Set("plotted_variable", value)
SetUseLogScale == \E value \in BOOLEAN : Set("use_log_scale", value)
SetPlotType == \E value \in TriedPlotTypes : Set("plot_type", value)
SetMapPlotDate == \E value \in TriedDates : Set("map_plot_date", value)

\* a read of dashboard.covid_data
ReadCovidData ==
  /\ \E o \in covid_data(Session, today) :
       /\ Store(o.s)
       /\ ret' = o.ret
  /\ op' = "covid_data"
  /\ req' = NoReq
  /\ err' = "none"
  /\ recomputed' = {}
  /\ views' = NoViews
  /\ UNCHANGED <<today, viewed, countries, plotted_variable, use_log_scale,
                 plot_type, map_plot_date>>

\* a call of dashboard.update_covid_data()
UpdateCovidData ==
  /\ \E raw \in RawTables : Store(update_covid_data(Session, raw))
  /\ op' = "update_covid_data"
  /\ req' = NoReq
  /\ err' = "none"
  /\ ret' = << >>
  /\ recomputed' = {}
  /\ views' = NoViews
  /\ UNCHANGED <<today, viewed, countries, plotted_variable, use_log_scale,
                 plot_type, map_plot_date>>

\* dashboard.view(): the three panes are built, each invoking its view and
\* watching the fields it depends on; when a view raises, view() raises and
\* no dashboard is built.  The dashboard is built once.
View ==
  /\ ~viewed
  /\ \E st \in RunViews(ViewOrder, [s |-> Session, views |-> NoViews,
                                    recomputed |-> {}, err |-> "none"], Fields, today) :
       /\ Store(st.s)
       /\ recomputed' = st.recomputed
       /\ err' = st.err
       /\ views' = st.views
       /\ viewed' = IF st.err = "none" THEN TRUE ELSE viewed
  /\ op' = "view"
  /\ req' = NoReq
  /\ ret' = << >>
  /\ UNCHANGED <<today, countries, plotted_variable, use_log_scale, plot_type,
                 map_plot_date>>

\* a day passes
Tick ==
  /\ today < MaxToday
  /\ today' = today + 1
  /\ UNCHANGED <<_covid_data, date_bounds, countries_objects, countries,
                 plotted_variable, use_log_scale, plot_type, map_plot_date, viewed,
                 views, op, req, err, ret, loads, recomputed, loaded>>

Next ==
  \/ SetCountries
  \/ SetPlottedVariable
  \/ SetUseLogScale
  \/ SetPlotType
  \/ SetMapPlotDate
  \/ ReadCovidData
  \/ UpdateCovidData
  \/ View
  \/ Tick

Spec == Init /\ [][Next]_vars

\* ---- properties ------------------------------------------------------------
\* a step of Set: the only action that leaves op = "set" (Tick, which keeps
\* op, advances today)
SetStep == op' = "set" /\ today' = today
\* a step of ReadCovidData
ReadStep == op' = "covid_data" /\ today' = today
\* the field values after a step
FieldsNext ==
  [countries |-> countries', plotted_variable |-> plotted_variable',
   use_log_scale |-> use_log_scale', plot_type |-> plot_type',
   map_plot_date |-> map_plot_date']

\* the domain of a field as the parameters declare it in the current state
InDeclaredDomain(field, value) ==
  CASE field = "countries" -> \A c \in value : c \in countries_objects
    [] field = "plotted_variable" -> value \in {"Confirmed", "Recovered", "Deaths"}
    [] field = "use_log_scale" -> value \in {TRUE, FALSE}
    [] field = "plot_type" -> value \in {"bar", "line"}
    [] field = "map_plot_date" -> date_bounds[1] <= value /\ value <= date_bounds[2]

\* the data is stale: its most recent date is more than one day older than
\* the current date
MoreThanOneDayOld == today - DateMax(_covid_data) > 1

\* C1: an assignment of a value outside the domain currently declared for the
\* field raises the validation error and leaves all five fields as they were
C1_OutOfDomainRejected ==
  [][(SetStep /\ ~InDeclaredDomain(req'.field, req'.value))
       => (err' = "ValueError" /\ FieldsNext = Fields)]_vars

\* C1 witness: a date above the upper bound was tried and rejected
C1_Witness ==
  /\ op = "set" /\ err = "ValueError"
  /\ req.field = "map_plot_date" /\ req.value > date_bounds[2]

\* C2: the bounds of the date are [min, max] of the loaded data and the
\* selected date lies within them in every reachable state
C2_DateWithinBounds ==
  /\ date_bounds = <<DateMin(_covid_data), DateMax(_covid_data)>>
  /\ date_bounds[1] <= map_plot_date
  /\ map_plot_date <= date_bounds[2]

\* C3: the selected countries are countries of the loaded data in every
\* reachable state
C3_CountriesKnown ==
  /\ countries_objects = FrameCountries(_covid_data)
  /\ countries \subseteq FrameCountries(_covid_data)

\* C4: a read of covid_data that follows a read, with days passing between
\* them or not, and finds the data not stale returns what the previous read
\* returned and calls no loader; this holds in particular when the previous
\* read found the data not stale either
C4_ReadIdempotent ==
  [][(op = "covid_data" /\ ReadStep /\ ~MoreThanOneDayOld)
       => (ret' = ret /\ loads' = 0 /\ loaded' = loaded /\ _covid_data' = _covid_data)]_vars

\* C4 witness: a read found data of yesterday, not stale, and returned it
C4_Witness ==
  /\ op = "covid_data" /\ loads = 0
  /\ today - DateMax(_covid_data) = 1
  /\ ret = _covid_data

\* C5: a read of covid_data calls the loader, once, exactly when the data is
\* stale, and then returns the newly loaded data; otherwise it returns the
\* cached data and leaves it
C5_ReloadIffStale ==
  [][ReadStep
       => IF MoreThanOneDayOld
          THEN loads' = 1 /\ loaded' \in Frames /\ _covid_data' = loaded' /\ ret' = loaded'
          ELSE loads' = 0 /\ ret' = _covid_data /\ _covid_data' = _covid_data]_vars

\* C5 witness: a read reloaded stale data and returned the new frame, which
\* differs from the one held before
C5_Witness ==
  /\ op = "covid_data" /\ loads = 1
  /\ ret = loaded /\ ret = _covid_data
  /\ DateMax(ret) = today - 1

\* the dependencies as the claim lists them
ClaimedDependents(field) ==
  (IF field \in {"countries", "plotted_variable", "use_log_scale", "plot_type"}
   THEN {"plot"} ELSE {})
  \cup (IF field \in {"plotted_variable", "use_log_scale", "map_plot_date"}
        THEN {"map_plot"} ELSE {})
  \cup (IF field \in {"map_plot_date", "countries"}
        THEN {"selected_day_numbers"} ELSE {})

\* a view that was invoked shows the current values of the fields it reads
ReflectsFields(name) ==
  LET v == views[name]
  IN /\ v.status = "ok"
     /\ name = "plot" => /\ v.kind = plot_type
                         /\ v.y = plotted_variable
                         /\ v.log_y = use_log_scale
     /\ name = "map_plot" => v.color \in {plotted_variable, LogColumn(plotted_variable)}
     /\ name = "selected_day_numbers" => v.title = map_plot_date

\* C6: once the dashboard is built, an assignment that changes a field
\* invokes exactly the views that depend on the field, and each of them
\* shows the new values
C6_RecomputeExactlyDependents ==
  [][(SetStep /\ viewed /\ err' # "ValueError"
        /\ FieldsNext[req'.field] # Fields[req'.field])
       => /\ recomputed' = ClaimedDependents(req'.field)
          /\ \A name \in ClaimedDependents(req'.field) : ReflectsFields(name)']_vars

\* C7: the data of the time series are exactly the rows of the data frame
\* whose country is selected, plotted by the selected metric
C7_PlotExactlySelected ==
  views["plot"].status = "ok"
    => LET v == views["plot"]
           selected(row) == row["Country"] \in countries
       IN /\ v.data = SelectSeq(v.frame, selected)
          /\ v.y = plotted_variable
          /\ v.color = "Country"

ToggleStep == SetStep /\ req'.field = "use_log_scale"

\* the map view colors by a column of its own: with log scale a column that
\* is none of the metrics and holds log10 of the metric, and every row keeps
\* the metric values of a row of the data frame
MapDerivesColumn ==
  views["map_plot"].status = "ok"
    => LET v == views["map_plot"]
       IN /\ \A i \in 1..Len(v.data) :
               \E j \in 1..Len(v.frame) :
                 \A c \in {"Country", "Date", "Confirmed", "Recovered", "Deaths"} :
                   v.data[i][c] = v.frame[j][c]
          /\ IF use_log_scale
             THEN /\ v.color \notin {"Confirmed", "Recovered", "Deaths"}
                  /\ \A i \in 1..Len(v.data) :
                       v.data[i][v.color] = Log10(v.data[i][plotted_variable])
             ELSE v.color = plotted_variable

\* C9 as stated: an assignment of use_log_scale, with the recomputation of
\* the views, leaves the cached data as it was
C9_ToggleKeepsData ==
  [][ToggleStep => (_covid_data' = _covid_data /\ MapDerivesColumn')]_vars

\* C9 as amended: an assignment of use_log_scale changes the cached data
\* only by a reload of stale data: with no load the cached data is as it
\* was, with a load it is what the loader returned, and the map view colors
\* by a derived column
C9_ToggleKeepsDataUnlessReload ==
  [][ToggleStep
       => /\ loads' = 0 => _covid_data' = _covid_data
          /\ _covid_data' \in {_covid_data, loaded'}
          /\ MapDerivesColumn']_vars

\* C9 witness: log scale was switched on, no load occurred, the map view
\* has rows colored by the derived column
C9_Witness ==
  /\ op = "set" /\ req.field = "use_log_scale" /\ use_log_scale
  /\ loads = 0
  /\ views["map_plot"].status = "ok"
  /\ Len(views["map_plot"].data) > 0
  /\ views["map_plot"].color = "log(Confirmed)"

\* C10: every computation of a view calls the loader at most once and applies
\* the row filter to the data frame it was computed from
C10_SingleSnapshot ==
  /\ op \in {"set", "view"} => loads <= Cardinality(recomputed)
  /\ \A name \in ViewNames : views[name].status = "ok" => views[name].same

====
